---- MODULE Spec2Model ----
(***************************************************************************)
(* Model of pybeepop.PyBeePop (src/pybeepop/pybeepop.py): the wrapper      *)
(* object around the BeePop+ shared library.  One handle is modelled: its  *)
(* attributes, the state of the native session it owns (BeePopModel, from  *)
(* pybeepop/tools.py, which is modelled from the specification), and a     *)
(* record of the last call made on it: the arguments, the exception class  *)
(* or "ok", the returned value, the collaborators that were called and the *)
(* paths that were tested with os.path.isfile.                             *)
(***************************************************************************)
EXTENDS Integers, Sequences, FiniteSets, TLC

VARIABLES phase, has_beepop, lib_file, parameter_file, weather_file,
          residue_file, parameters, output, native, last

vars == <<phase, has_beepop, lib_file, parameter_file, weather_file,
          residue_file, parameters, output, native, last>>

attrs == <<lib_file, parameter_file, weather_file, residue_file, parameters, output>>

(***************************************************************************)
(* Bounds                                                                  *)
(***************************************************************************)
MaxDays == 2          \* rows of a table the native run returns
MaxCols == 2          \* length of an explicit columns argument
MaxParamValue == 1    \* parameter values are 1..MaxParamValue

(***************************************************************************)
(* Python values                                                           *)
(***************************************************************************)
None == "None"                       \* None, for the path attributes
Unset == "<unset>"                   \* an attribute that was never assigned
NoneV == [kind |-> "None"]           \* None, for parameters / output / returns
UnsetV == [kind |-> "unset"]         \* parameters / output before their assignment
Dict(f) == [kind |-> "dict", d |-> f]
ListV == [kind |-> "list"]
StrV == [kind |-> "str"]
IntV == [kind |-> "int"]
NoArgs == [none |-> TRUE]

SeqsUpTo(S, n) == UNION {[1..k -> S] : k \in 0..n}
Range(s) == {s[i] : i \in DOMAIN s}

(***************************************************************************)
(* The file system and the platform, as the constructor sees them          *)
(***************************************************************************)
WinLib == "lib/beepop_win64.dll"
LinuxLib == "lib/beepop_linux.so"
CustomLib == "custom/beepop.so"
MissingLib == "custom/missing.so"
DataFiles == {"data.csv"}
MissingFile == "missing.csv"
ExistingFiles == {WinLib, LinuxLib, CustomLib} \cup DataFiles

isfile(path) == path \in ExistingFiles

Platforms == {"Windows", "Linux", "Darwin"}
Architectures == {"32bit", "64bit"}
LibArgs == {None, CustomLib, MissingLib}
PathArgs == DataFiles \cup {MissingFile}

(***************************************************************************)
(* Parameters and tables                                                   *)
(***************************************************************************)
ValidParameters == {"ICWorkerAdults"}
ParamNames == ValidParameters \cup {"badkey"}
ParamValues == 1..MaxParamValue
DictArgs == UNION {[K -> ParamValues] : K \in SUBSET ParamNames}
ParameterArgs == {NoneV, ListV, StrV, IntV} \cup {Dict(f) : f \in DictArgs}

DefaultColumns == <<"Colony Size", "Adult Workers", "Capped Worker Brood",
                    "Worker Larvae", "Worker Eggs">>
OutputColumns == DefaultColumns
RowValues == {<<10, 8, 1, 1, 0>>}
RequestNames == {"Colony Size", "NotARealColumn"}
ColumnArgs == {DefaultColumns} \cup SeqsUpTo(RequestNames, MaxCols)
Formats == {"DataFrame", "json"}

DataFrame(rows) == [kind |-> "DataFrame", columns |-> OutputColumns, data |-> rows]
\* the value is a table (attribute access on None raises AttributeError)
IsDataFrame(out) == out.kind = "DataFrame"

Tables == {DataFrame(rows) : rows \in SeqsUpTo(RowValues, MaxDays) \ {<<>>}}

ColumnIndex(df, c) == CHOOSE i \in DOMAIN df.columns : df.columns[i] = c

\* DataFrame.to_dict(orient="list"): column name -> list of the column's values
to_dict_list(df) ==
    [c \in Range(df.columns) |->
        [i \in DOMAIN df.data |-> df.data[i][ColumnIndex(df, c)]]]

\* json.dumps of that mapping
json_dumps(obj) == [kind |-> "json", obj |-> obj]

(***************************************************************************)
(* The native session (BeePopModel)                                        *)
(***************************************************************************)
NativeOpened == [open |-> TRUE, pars |-> <<>>, weather |-> FALSE,
                 input |-> FALSE, contam |-> FALSE, results |-> NoneV]
NativeClosed == [open |-> FALSE, pars |-> <<>>, weather |-> FALSE,
                 input |-> FALSE, contam |-> FALSE, results |-> NoneV]

Update(old, new) ==
    [k \in DOMAIN old \cup DOMAIN new |-> IF k \in DOMAIN new THEN new[k] ELSE old[k]]

BadKeys(d) == DOMAIN d \ ValidParameters

\* BeePopModel.set_parameters: the parameters the session holds afterwards
NativeSetParameters(pars, arg) ==
    IF arg.kind = "dict" THEN Update(pars, arg.d) ELSE pars

(***************************************************************************)
(* The record of the last call                                             *)
(***************************************************************************)
Call(op, args, result, ret, calls, checked) ==
    [op |-> op, args |-> args, result |-> result, ret |-> ret,
     calls |-> calls, isfile |-> checked]

NativeEntryPoints == {"BeePopModel", "set_parameters", "get_parameters",
                      "load_weather", "load_input_file", "load_contam_file",
                      "run_beepop", "get_errors", "get_info", "get_version",
                      "close_library"}

NativeCalls(c) == c.calls \cap NativeEntryPoints

Init ==
    /\ phase = "new"
    /\ has_beepop = FALSE
    /\ lib_file = Unset
    /\ parameter_file = Unset
    /\ weather_file = Unset
    /\ residue_file = Unset
    /\ parameters = UnsetV
    /\ output = UnsetV
    /\ native = NativeClosed
    /\ last = Call("none", NoArgs, "ok", NoneV, {}, {})

(***************************************************************************)
(* __init__                                                                *)
(***************************************************************************)
\* lines 44-64: the library the constructor resolves, or the refusal
SelectLibrary(lib, plat, arch) ==
    IF lib /= None THEN [raise |-> FALSE, lib_file |-> lib]
    ELSE IF plat = "Windows"
         THEN IF arch = "32bit"
              THEN [raise |-> TRUE, lib_file |-> None]
              ELSE [raise |-> FALSE, lib_file |-> WinLib]
         ELSE IF plat = "Linux"
              THEN [raise |-> FALSE, lib_file |-> LinuxLib]
              ELSE [raise |-> TRUE, lib_file |-> None]

\* reading an attribute that was never assigned raises AttributeError
GetAttrRaises(attr) == attr = Unset

ConstructionFails(args, exc, calls, checked) ==
    /\ phase' = "failed"
    /\ last' = Call("__init__", args, exc, NoneV, calls, checked)
    /\ UNCHANGED <<has_beepop, attrs, native>>

PyBeePop_init ==
    /\ phase = "new"
    /\ \E lib \in LibArgs, pf \in PathArgs \cup {None}, wf \in PathArgs \cup {None},
          rf \in PathArgs \cup {None}, plat \in Platforms, arch \in Architectures,
          verbose \in BOOLEAN, native_ok \in BOOLEAN :
        LET args == [lib_file |-> lib, parameter_file |-> pf, weather_file |-> wf,
                     residue_file |-> rf, platform |-> plat, arch |-> arch,
                     verbose |-> verbose]
            sel == SelectLibrary(lib, plat, arch)
            open == {"BeePopModel"}
            wcalls == IF wf /= None THEN {"load_weather"} ELSE {}
            wchecked == IF wf /= None THEN {wf} ELSE {}
            printed == IF lib = None /\ plat = "Linux" /\ verbose THEN {"print"} ELSE {}
        IN
        IF sel.raise
        THEN ConstructionFails(args, "NotImplementedError", {}, {})
        ELSE IF ~isfile(sel.lib_file)                              \* line 65
        THEN ConstructionFails(args, "FileNotFoundError", printed, {sel.lib_file})
        ELSE IF pf /= None /\ GetAttrRaises(parameter_file)        \* line 77
        THEN ConstructionFails(args, "AttributeError", printed \cup open, {sel.lib_file})
        ELSE IF wf /= None /\ ~isfile(wf)                          \* line 81 -> 120
        THEN ConstructionFails(args, "FileNotFoundError", printed \cup open,
                               {sel.lib_file, wf})
        ELSE IF wf /= None /\ ~native_ok                           \* line 81 -> 123
        THEN ConstructionFails(args, "RuntimeError", printed \cup open \cup wcalls,
                               {sel.lib_file, wf})
        ELSE IF rf /= None /\ GetAttrRaises(residue_file)          \* line 85
        THEN ConstructionFails(args, "AttributeError", printed \cup open \cup wcalls,
                               {sel.lib_file} \cup wchecked)
        ELSE /\ native_ok
             /\ phase' = "open"
             /\ has_beepop' = TRUE
             /\ lib_file' = sel.lib_file
             /\ parameters' = NoneV
             /\ parameter_file' = None
             /\ weather_file' = wf
             /\ residue_file' = None
             /\ output' = NoneV
             /\ native' = [NativeOpened EXCEPT !.weather = (wf /= None)]
             /\ last' = Call("__init__", args, "ok", NoneV,
                             printed \cup open \cup wcalls, {sel.lib_file} \cup wchecked)

(***************************************************************************)
(* Operations on a constructed handle                                      *)
(***************************************************************************)
Returns(op, args, result, ret, calls, checked) ==
    last' = Call(op, args, result, ret, calls, checked)

\* lines 101-102: the argument set_parameters refuses
set_parameters_rejects(arg) == arg.kind /= "None" /\ arg.kind /= "dict"

set_parameters ==
    /\ phase = "open"
    /\ \E arg \in ParameterArgs, native_ok \in BOOLEAN :
        LET args == [parameters |-> arg] IN
        IF set_parameters_rejects(arg)
        THEN /\ Returns("set_parameters", args, "TypeError", NoneV, {}, {})
             /\ UNCHANGED <<phase, has_beepop, attrs, native>>
        ELSE IF ~has_beepop
        THEN /\ Returns("set_parameters", args, "AttributeError", NoneV, {}, {})
             /\ UNCHANGED <<phase, has_beepop, attrs, native>>
        ELSE IF arg.kind = "dict" /\ BadKeys(arg.d) /= {}
        THEN /\ Returns("set_parameters", args, "ValueError",
                        [kind |-> "names", names |-> BadKeys(arg.d)],
                        {"set_parameters"}, {})
             /\ UNCHANGED <<phase, has_beepop, attrs, native>>
        ELSE IF arg.kind = "None" /\ ~native_ok
        THEN /\ Returns("set_parameters", args, "RuntimeError", NoneV,
                        {"set_parameters"}, {})
             /\ UNCHANGED <<phase, has_beepop, attrs, native>>
        ELSE /\ native' = [native EXCEPT !.pars = NativeSetParameters(native.pars, arg)]
             /\ parameters' = Dict(native'.pars)                    \* line 103
             /\ Returns("set_parameters", args, "ok", NoneV, {"set_parameters"}, {})
             /\ UNCHANGED <<phase, has_beepop, lib_file, parameter_file,
                            weather_file, residue_file, output>>

get_parameters ==
    /\ phase = "open"
    /\ IF ~has_beepop
       THEN Returns("get_parameters", NoArgs, "AttributeError", NoneV, {}, {})
       ELSE Returns("get_parameters", NoArgs, "ok", Dict(native.pars),
                    {"get_parameters"}, {})
    /\ UNCHANGED <<phase, has_beepop, attrs, native>>

\* the path recorded before the existence check
AttrAfterLoad_assign_first(old, path) == path

\* lines 120-122, 138-142, 157-159: the path attribute after a load call
AttrAfterLoad(old, path) == IF isfile(path) THEN path ELSE old

\* the outcome of a load call: the not-found check, the attribute read of
\* self.beepop, then the single native bulk-load call
LoadOutcome(op, entry, field, path, native_ok) ==
    IF ~isfile(path)
    THEN /\ Returns(op, [path |-> path], "FileNotFoundError", NoneV, {}, {path})
         /\ UNCHANGED native
    ELSE IF ~has_beepop
    THEN /\ Returns(op, [path |-> path], "AttributeError", NoneV, {}, {path})
         /\ UNCHANGED native
    ELSE IF ~native_ok
    THEN /\ Returns(op, [path |-> path], "RuntimeError", NoneV, {entry}, {path})
         /\ UNCHANGED native
    ELSE /\ Returns(op, [path |-> path], "ok", NoneV, {entry}, {path})
         /\ native' = [native EXCEPT ![field] = TRUE]

load_weather ==
    /\ phase = "open"
    /\ \E path \in PathArgs, native_ok \in BOOLEAN :
        /\ weather_file' = AttrAfterLoad(weather_file, path)
        /\ LoadOutcome("load_weather", "load_weather", "weather", path, native_ok)
    /\ UNCHANGED <<phase, has_beepop, lib_file, parameter_file, residue_file,
                   parameters, output>>

load_parameter_file ==
    /\ phase = "open"
    /\ \E path \in PathArgs, native_ok \in BOOLEAN :
        /\ parameter_file' = AttrAfterLoad(parameter_file, path)
        /\ LoadOutcome("load_parameter_file", "load_input_file", "input", path, native_ok)
    /\ UNCHANGED <<phase, has_beepop, lib_file, weather_file, residue_file,
                   parameters, output>>

load_residue_file ==
    /\ phase = "open"
    /\ \E path \in PathArgs, native_ok \in BOOLEAN :
        /\ residue_file' = AttrAfterLoad(residue_file, path)
        /\ LoadOutcome("load_residue_file", "load_contam_file", "contam", path, native_ok)
    /\ UNCHANGED <<phase, has_beepop, lib_file, parameter_file, weather_file,
                   parameters, output>>

\* line 172: the "running with default settings" message
NoParametersSet(pf, pars) == pf = None /\ pars = NoneV

\* the precondition check left out
WeatherNotSet_unchecked(wf) == FALSE

\* line 174: the precondition of run_model
WeatherNotSet(wf) == wf = None

\* the new rows appended to the stored table instead of replacing it
OutputAfterRun_append(old, table) ==
    IF IsDataFrame(old) /\ Len(old.data) + Len(table.data) <= 2 * MaxDays
    THEN DataFrame(old.data \o table.data)
    ELSE table

\* line 176: the Run Output after a native run that returned table
OutputAfterRun(old, table) == table

run_model ==
    /\ phase = "open"
    /\ \E table \in Tables, native_ok \in BOOLEAN :
        LET printed == IF NoParametersSet(parameter_file, parameters)
                       THEN {"print"} ELSE {}
        IN
        IF WeatherNotSet(weather_file)
        THEN /\ Returns("run_model", NoArgs, "RuntimeError",
                        [kind |-> "message", text |-> "Weather must be set"],
                        printed, {})
             /\ UNCHANGED <<output, native>>
        ELSE IF ~has_beepop
        THEN /\ Returns("run_model", NoArgs, "AttributeError", NoneV, printed, {})
             /\ UNCHANGED <<output, native>>
        ELSE IF ~native_ok
        THEN /\ Returns("run_model", NoArgs, "RuntimeError",
                        [kind |-> "message", text |-> "native failure"],
                        printed \cup {"run_beepop"}, {})
             /\ UNCHANGED <<output, native>>
        ELSE /\ native' = [native EXCEPT !.results = table]
             /\ output' = OutputAfterRun(output, table)
             /\ Returns("run_model", NoArgs, "ok", output',
                        printed \cup {"run_beepop"}, {})
    /\ UNCHANGED <<phase, has_beepop, lib_file, parameter_file, weather_file,
                   residue_file, parameters>>

\* the check for a missing Run Output left out
NoResults_unchecked(out) == FALSE

\* lines 192, 221: no Run Output is stored
NoResults(out) == out = NoneV

get_output ==
    /\ phase = "open"
    /\ \E format \in Formats :
        IF NoResults(output)
        THEN Returns("get_output", [format |-> format], "RuntimeError",
                     [kind |-> "message", text |-> "There are no results"], {}, {})
        ELSE IF format = "json" /\ ~IsDataFrame(output)          \* None.to_dict
        THEN Returns("get_output", [format |-> format], "AttributeError", NoneV, {}, {})
        ELSE IF format = "json"
        THEN Returns("get_output", [format |-> format], "ok",
                     json_dumps(to_dict_list(output)), {}, {})
        ELSE Returns("get_output", [format |-> format], "ok", output, {}, {})
    /\ UNCHANGED <<phase, has_beepop, attrs, native>>

\* the membership test inverted
invalid_cols_inverted(columns, df) ==
    [i \in DOMAIN columns |-> columns[i] \in Range(df.columns)]

\* line 223: for each requested column, whether it is missing from the output
invalid_cols(columns, df) ==
    [i \in DOMAIN columns |-> columns[i] \notin Range(df.columns)]

any(flags) == \E i \in DOMAIN flags : flags[i]

IsInvalid(pair) == pair[2]
First(pair) == pair[1]
Zip(columns, flags) == [i \in DOMAIN columns |-> <<columns[i], flags[i]>>]
MapFirst(pairs) == [i \in DOMAIN pairs |-> First(pairs[i])]

\* line 227: the names the IndexError message lists
InvalidNames(columns, flags) == MapFirst(SelectSeq(Zip(columns, flags), IsInvalid))

plot_output ==
    /\ phase = "open"
    /\ \E columns \in ColumnArgs :
        LET args == [columns |-> columns] IN
        IF NoResults(output)
        THEN Returns("plot_output", args, "RuntimeError",
                     [kind |-> "message", text |-> "There are no results"], {}, {})
        ELSE IF ~IsDataFrame(output)                              \* None.columns
        THEN Returns("plot_output", args, "AttributeError", NoneV, {}, {})
        ELSE IF any(invalid_cols(columns, output))
        THEN Returns("plot_output", args, "IndexError",
                     [kind |-> "columns",
                      columns |-> InvalidNames(columns, invalid_cols(columns, output))],
                     {}, {})
        ELSE Returns("plot_output", args, "ok", [kind |-> "Axes"],
                     {"plot_timeseries"}, {})
    /\ UNCHANGED <<phase, has_beepop, attrs, native>>

NativeRead(op, entry) ==
    /\ phase = "open"
    /\ IF ~has_beepop
       THEN Returns(op, NoArgs, "AttributeError", NoneV, {}, {})
       ELSE Returns(op, NoArgs, "ok", StrV, {entry}, {})
    /\ UNCHANGED <<phase, has_beepop, attrs, native>>

get_error_log == NativeRead("get_error_log", "get_errors")

get_info_log == NativeRead("get_info_log", "get_info")

version == NativeRead("version", "get_version")

\* the del statement left out
BeepopAfterExit_kept == TRUE

\* line 249: whether the attribute self.beepop survives exit()
BeepopAfterExit == FALSE

exit ==
    /\ phase = "open"
    /\ IF ~has_beepop
       THEN /\ Returns("exit", NoArgs, "AttributeError", NoneV, {}, {})
            /\ UNCHANGED <<has_beepop, native>>
       ELSE /\ Returns("exit", NoArgs, "ok", NoneV, {"close_library"}, {})
            /\ native' = NativeClosed
            /\ has_beepop' = BeepopAfterExit
    /\ UNCHANGED <<phase, attrs>>

Next ==
    \/ PyBeePop_init
    \/ set_parameters
    \/ get_parameters
    \/ load_weather
    \/ load_parameter_file
    \/ load_residue_file
    \/ run_model
    \/ get_output
    \/ plot_output
    \/ get_error_log
    \/ get_info_log
    \/ version
    \/ exit

Spec == Init /\ [][Next]_vars

(***************************************************************************)
(* Vocabulary of the properties                                            *)
(***************************************************************************)
Open == phase = "open" /\ has_beepop
Closed == phase = "open" /\ ~has_beepop
LoadOps == {"load_weather", "load_parameter_file", "load_residue_file"}
WeatherError(c) ==
    c.result = "RuntimeError" /\ c.ret = [kind |-> "message", text |-> "Weather must be set"]
NoResultsError(c) ==
    c.result = "RuntimeError" /\ c.ret = [kind |-> "message", text |-> "There are no results"]
IsMissing(out, col) == col \notin Range(out.columns)
MissingFrom(out, columns) == SelectSeq(columns, LAMBDA col : IsMissing(out, col))
AllPresent(out, columns) == \A i \in DOMAIN columns : ~IsMissing(out, columns[i])
Supported(plat, arch) == plat \in {"Windows", "Linux"} /\ arch = "64bit"
Bundled(plat) == IF plat = "Windows" THEN WinLib ELSE LinuxLib
Supplied(path) == IF path = None THEN {} ELSE {path}
LoadsFor(a) ==
    (IF a.parameter_file = None THEN {} ELSE {"load_input_file"})
    \cup (IF a.weather_file = None THEN {} ELSE {"load_weather"})
    \cup (IF a.residue_file = None THEN {} ELSE {"load_contam_file"})

(***************************************************************************)
(* C1: every run_model() call on an open handle fails with the "weather    *)
(* must be set" precondition error exactly when weather_file is None,      *)
(* whatever parameters and parameter_file are; when it fails so, the       *)
(* native run entry point is not called and output is unchanged; when      *)
(* weather is set and no parameters were ever set, the native run entry    *)
(* point is called.                                                        *)
(***************************************************************************)
C1_RunNeedsWeather ==
    [][ (Open /\ last'.op = "run_model") =>
          /\ WeatherError(last') <=> (weather_file = None)
          /\ WeatherError(last') =>
                ("run_beepop" \notin last'.calls /\ output' = output)
          /\ (weather_file /= None /\ parameter_file = None /\ parameters = NoneV)
                => "run_beepop" \in last'.calls ]_vars

C1_Witness ==
    /\ Open
    /\ last.op = "run_model"
    /\ weather_file /= None
    /\ parameter_file = None
    /\ parameters = NoneV
    /\ "run_beepop" \in last.calls

(***************************************************************************)
(* C2: a load_weather / load_parameter_file / load_residue_file call on an *)
(* open handle with a path that is not an existing file fails with         *)
(* FileNotFoundError, calls no native entry point, and leaves weather_file,*)
(* parameter_file, residue_file, parameters and output as they were.       *)
(***************************************************************************)
C2_MissingFileLoadIsNoOp ==
    [][ (Open /\ last'.op \in LoadOps /\ ~isfile(last'.args.path)) =>
          /\ last'.result = "FileNotFoundError"
          /\ NativeCalls(last') = {}
          /\ UNCHANGED <<weather_file, parameter_file, residue_file,
                         parameters, output>> ]_vars

C2_Witness ==
    /\ Open
    /\ last.op \in LoadOps
    /\ last.args.path = MissingFile
    /\ last.result = "FileNotFoundError"
    /\ weather_file /= None
    /\ IsDataFrame(output)

(***************************************************************************)
(* C3: a constructed handle starts with no Run Output, and output stays    *)
(* None across every step that is not a successful run_model(); while it   *)
(* is None, get_output() and plot_output() fail with the "no results"      *)
(* precondition error; get_output() never changes the handle's state.      *)
(***************************************************************************)
C3_NoOutputBeforeRun ==
    [][ /\ (last'.op = "__init__" /\ phase' = "open") => output' = NoneV
        /\ (phase = "open" /\ output = NoneV
              /\ ~(last'.op = "run_model" /\ last'.result = "ok"))
             => output' = NoneV
        /\ (phase = "open" /\ output = NoneV
              /\ last'.op \in {"get_output", "plot_output"})
             => NoResultsError(last')
        /\ (last'.op = "get_output")
             => UNCHANGED <<phase, has_beepop, attrs, native>> ]_vars

C3_Witness ==
    /\ Open
    /\ last.op = "get_output"
    /\ NoResultsError(last)
    /\ output = NoneV
    /\ weather_file /= None
    /\ parameters /= NoneV

(***************************************************************************)
(* C4: after a successful run_model() the stored output is exactly the     *)
(* table the native run just returned (and is what run_model returns); a   *)
(* run_model() that fails leaves the stored output in place; get_output()  *)
(* returns the stored output.                                              *)
(***************************************************************************)
C4_RerunOverwrites ==
    [][ (phase = "open") =>
          /\ (last'.op = "run_model" /\ last'.result = "ok")
               => (output' = native'.results /\ last'.ret = output'
                   /\ output' \in Tables)
          /\ (last'.op = "run_model" /\ last'.result /= "ok")
               => output' = output
          /\ (last'.op = "get_output" /\ last'.result = "ok"
                /\ last'.args.format = "DataFrame")
               => last'.ret = output ]_vars

C4_Witness ==
    /\ Open
    /\ last.op = "run_model"
    /\ last.result = "RuntimeError"
    /\ "run_beepop" \in last.calls
    /\ IsDataFrame(output)
    /\ parameters /= NoneV

(***************************************************************************)
(* C5: construction without an explicit library path checks the bundled    *)
(* artifact of the operating system when the platform is 64-bit Windows or *)
(* 64-bit Linux, and on every other (operating system, word size) pair     *)
(* fails with NotImplementedError before any os.path.isfile check.         *)
(***************************************************************************)
C5_PlatformDispatch ==
    (last.op = "__init__" /\ last.args.lib_file = None) =>
        IF Supported(last.args.platform, last.args.arch)
        THEN /\ last.isfile \cap {WinLib, LinuxLib} = {Bundled(last.args.platform)}
             /\ last.result = "ok" => lib_file = Bundled(last.args.platform)
        ELSE /\ last.result = "NotImplementedError"
             /\ last.isfile = {}

(***************************************************************************)
(* C6: construction with a valid library and any subset of parameter_file, *)
(* weather_file, residue_file given as existing files (that the native     *)
(* layer accepts) succeeds, makes the native load call for exactly the     *)
(* supplied files, records each supplied path, leaves the others None and  *)
(* ends with output None.                                                  *)
(***************************************************************************)
C6_ConstructWithFiles ==
    (/\ last.op = "__init__"
     /\ ~SelectLibrary(last.args.lib_file, last.args.platform, last.args.arch).raise
     /\ isfile(SelectLibrary(last.args.lib_file, last.args.platform, last.args.arch).lib_file)
     /\ Supplied(last.args.parameter_file) \cup Supplied(last.args.weather_file)
           \cup Supplied(last.args.residue_file) \subseteq ExistingFiles
     /\ last.result /= "RuntimeError")
    => /\ last.result = "ok"
       /\ phase = "open"
       /\ parameter_file = last.args.parameter_file
       /\ weather_file = last.args.weather_file
       /\ residue_file = last.args.residue_file
       /\ output = NoneV
       /\ NativeCalls(last) = {"BeePopModel"} \cup LoadsFor(last.args)

(***************************************************************************)
(* C7 (as stated): once exit() has returned, the native handle is released *)
(* and every later call on the handle fails without reaching the native    *)
(* library.                                                                *)
(***************************************************************************)
C7_ClosedIsTerminal ==
    [][ /\ (phase = "open" /\ last'.op = "exit" /\ last'.result = "ok")
             => (~has_beepop' /\ native' = NativeClosed)
        /\ Closed =>
             /\ Closed'
             /\ last'.result /= "ok"
             /\ NativeCalls(last') = {} ]_vars

(***************************************************************************)
(* C7 (amended): once exit() has returned, the native handle is released,  *)
(* the handle stays closed, no later call reaches the native library, and  *)
(* every later call other than get_output and plot_output fails;           *)
(* get_output succeeds exactly when a Run Output is stored and plot_output *)
(* exactly when one is stored and every requested column is in it.         *)
(***************************************************************************)
C7_ClosedExceptOutputReads ==
    [][ /\ (phase = "open" /\ last'.op = "exit" /\ last'.result = "ok")
             => (~has_beepop' /\ native' = NativeClosed)
        /\ Closed =>
             /\ Closed'
             /\ NativeCalls(last') = {}
             /\ last'.op \notin {"get_output", "plot_output"} => last'.result /= "ok"
             /\ last'.op = "get_output" =>
                   (last'.result = "ok" <=> IsDataFrame(output))
             /\ last'.op = "plot_output" =>
                   (last'.result = "ok" <=>
                      (IsDataFrame(output) /\ AllPresent(output, last'.args.columns)))
      ]_vars

C7_Witness ==
    /\ Closed
    /\ last.op = "get_output"
    /\ last.result = "ok"
    /\ last.ret = output

(***************************************************************************)
(* C8: set_parameters(x) on an open handle rejects every x that is not a   *)
(* mapping (list, string, number, None) with TypeError before any call to  *)
(* the native parameter-set entry point and leaves parameters unchanged;   *)
(* when the native layer rejects a name, the error propagates and          *)
(* parameters keeps its value.                                             *)
(***************************************************************************)
C8_NonMappingRejected ==
    [][ (Open /\ last'.op = "set_parameters") =>
          /\ (last'.args.parameters.kind /= "dict")
               => /\ last'.result = "TypeError"
                  /\ "set_parameters" \notin last'.calls
                  /\ parameters' = parameters
          /\ (last'.args.parameters.kind = "dict"
                /\ BadKeys(last'.args.parameters.d) /= {})
               => /\ last'.result = "ValueError"
                  /\ parameters' = parameters ]_vars

(***************************************************************************)
(* C9: plot_output(columns) on a handle with a stored Run Output calls the *)
(* plotting collaborator iff every requested column is a column of the     *)
(* output; otherwise it fails with IndexError naming exactly the requested *)
(* columns that are missing, and nothing is plotted; with no Run Output    *)
(* the "no results" precondition error is raised whatever the columns.     *)
(***************************************************************************)
C9_PlotValidatesColumns ==
    (phase = "open" /\ last.op = "plot_output") =>
        IF output = NoneV
        THEN NoResultsError(last) /\ "plot_timeseries" \notin last.calls
        ELSE /\ ("plot_timeseries" \in last.calls)
                  <=> AllPresent(output, last.args.columns)
             /\ ~AllPresent(output, last.args.columns) =>
                  /\ last.result = "IndexError"
                  /\ last.ret = [kind |-> "columns",
                                 columns |-> MissingFrom(output, last.args.columns)]

C9_Witness ==
    /\ last.op = "plot_output"
    /\ last.result = "IndexError"
    /\ Len(last.args.columns) = 2
    /\ last.ret.columns = <<"NotARealColumn">>

(***************************************************************************)
(* C10: run_model() reaches the native run entry point only when a weather *)
(* load has succeeded in the native session.                               *)
(***************************************************************************)
C10_RunOnlyAfterNativeWeather ==
    (Open /\ last.op = "run_model" /\ "run_beepop" \in last.calls) => native.weather
====
